---------------------------- MODULE Spec2Model ----------------------------
(***************************************************************************)
(* Feed retrieval of the twitter clone:                                    *)
(* module/tweet/service/list_tweet_feed_service.go.                        *)
(*                                                                         *)
(* The store is the relational database the service reads: the tables      *)
(* tweets, follows, favorites and replies (users is the fixed set Users).   *)
(* Execute(userID, createdAtCursor) is the one operation.  It parses the   *)
(* cursor, issues one query (buildSQLQuery), maps the rows in the order    *)
(* the store returns them, and returns the page or an error.               *)
(*                                                                         *)
(* ORDER BY __tweets.created_at DESC names no tie-breaker, so the store    *)
(* may return rows that share a created_at in any order, and LIMIT 10      *)
(* keeps whichever of them come first: Query is the set of results the     *)
(* store may produce.                                                      *)
(***************************************************************************)
EXTENDS Naturals, Sequences, FiniteSets, TLC

(***************************************************************************)
(* Bounds of the model.                                                    *)
(***************************************************************************)
\* The accounts (the rows of users).
Users == {1, 2}
\* The oldest tweets are 1..k, k in DetailCounts: any author, created_at
\* equal to or one second after the previous tweet's, any reply edge to an
\* older tweet, any favorites.
DetailCounts == {0, 1, 2}
\* A later run of tweets by one account, one per second, is at most MaxBulk
\* long.
MaxBulk == 10
\* Timestamps a caller sends as a first cursor are seconds 0..MaxCursor.
MaxCursor == 3

(***************************************************************************)
(* The store and the state of the last call.                               *)
(***************************************************************************)
VARIABLES
    tweets,     \* table tweets: id -> [id_user, created_at]
    follows,    \* table follows: set of [follower_id, followed_id]
    favorites,  \* table favorites: set of [id_user, id_tweet]
    replies,    \* table replies: set of [id_reply, id_tweet]
    call,       \* the arguments of the last call of Execute, and how it was made
    ret,        \* what that call returned: [tweets, err]
    mapped,     \* the local slice `tweets` of that call when it returned
    queries,    \* the number of db.Query calls that call issued
    prev,       \* the page of the preceding identical call (call.kind = "again")
    acc         \* the ids of the earlier pages of the traversal (call.trav)

store == <<tweets, follows, favorites, replies>>
vars == <<tweets, follows, favorites, replies, call, ret, mapped, queries, prev, acc>>

(***************************************************************************)
(* time.Time values are whole seconds of one minute; the cursor is their   *)
(* RFC3339 text.                                                           *)
(***************************************************************************)
Seconds == 0..59

\* time.Time.Format(time.RFC3339), which is also how CreatedAt is marshalled.
FormatRFC3339(t) ==
    "2021-06-01T00:00:" \o (IF t < 10 THEN "0" ELSE "") \o ToString(t) \o "Z"

\* A lenient parser: any text is taken as second 0.
ParseLenient(s) ==
    IF \E t \in Seconds : FormatRFC3339(t) = s
    THEN [ok |-> TRUE, t |-> CHOOSE t \in Seconds : FormatRFC3339(t) = s]
    ELSE [ok |-> TRUE, t |-> 0]

\* time.Parse(time.RFC3339, s): the time, or an error.
ParseRFC3339(s) ==
    IF \E t \in Seconds : FormatRFC3339(t) = s
    THEN [ok |-> TRUE, t |-> CHOOSE t \in Seconds : FormatRFC3339(t) = s]
    ELSE [ok |-> FALSE, t |-> 0]

(***************************************************************************)
(* buildSQLQuery: the query, by what it selects.                           *)
(***************************************************************************)
\* sql.NullInt64 / sql.NullBool of a column of the LEFT JOIN.
NullInt64 == [Valid |-> FALSE, Int64 |-> 0]
NullBool == [Valid |-> FALSE, Bool |-> FALSE]
SomeInt64(n) == [Valid |-> TRUE, Int64 |-> n]
SomeBool(b) == [Valid |-> TRUE, Bool |-> b]

\* EXISTS (SELECT 1 FROM favorites WHERE id_tweet = tweets.id) : the
\* id_user = $1 condition dropped.
LikedByAnyone(id, userID) ==
    \E f \in favorites : f.id_tweet = id

\* EXISTS (SELECT 1 FROM favorites WHERE favorites.id_tweet = tweets.id AND
\* favorites.id_user = $1)
AlreadyLiked(id, userID) ==
    \E f \in favorites : f.id_tweet = id /\ f.id_user = userID

\* COUNT(DISTINCT favorites.id) over LEFT JOIN favorites ON tweets.id = favorites.id_tweet
FavoriteCount(id) == Cardinality({f \in favorites : f.id_tweet = id})

\* COUNT(DISTINCT replies.id_reply) over LEFT JOIN replies ON tweets.id = replies.id_tweet
ReplyCount(id) == Cardinality({r.id_reply : r \in {q \in replies : q.id_tweet = id}})

\* WITH __tweets AS (...): one row per tweet (its author is a row of users).
CteTweets(userID) ==
    { [id |-> id,
       created_at |-> tweets[id].created_at,
       author_id |-> tweets[id].id_user,
       reply_count |-> ReplyCount(id),
       favorite_count |-> FavoriteCount(id),
       already_liked |-> AlreadyLiked(id, userID)] : id \in DOMAIN tweets }

\* The subquery __replied_tweet: replies INNER JOIN __tweets ON
\* replies.id_tweet = __tweets.id
RepliedTweet(userID) ==
    { [id_reply |-> r.id_reply,
       id_tweet |-> r.id_tweet,
       already_liked |-> p.already_liked,
       reply_count |-> p.reply_count,
       favorite_count |-> p.favorite_count] :
      <<r, p>> \in {x \in replies \X CteTweets(userID) : x[1].id_tweet = x[2].id} }

\* One row of the select list: the columns of t, and those of its replied
\* tweet p (<<>>: the LEFT JOIN found none, the columns are NULL).
SelectRow(t, p) ==
    [id |-> t.id,
     created_at |-> t.created_at,
     author_id |-> t.author_id,
     already_liked |-> t.already_liked,
     favorite_count |-> t.favorite_count,
     reply_count |-> t.reply_count,
     replied_id_tweet |-> IF p = <<>> THEN NullInt64 ELSE SomeInt64(p[1].id_tweet),
     replied_already_liked |-> IF p = <<>> THEN NullBool ELSE SomeBool(p[1].already_liked),
     replied_reply_count |-> IF p = <<>> THEN NullInt64 ELSE SomeInt64(p[1].reply_count),
     replied_favorite_count |-> IF p = <<>> THEN NullInt64 ELSE SomeInt64(p[1].favorite_count)]

\* __tweets LEFT JOIN __replied_tweet ON __tweets.id = __replied_tweet.id_reply
LeftJoinReplied(t, userID) ==
    LET ps == {p \in RepliedTweet(userID) : p.id_reply = t.id}
    IN  IF ps = {} THEN {SelectRow(t, <<>>)} ELSE {SelectRow(t, <<p>>) : p \in ps}

\* INNER JOIN follows ON followed_id = author_id, without WHERE follower_id = $1.
FollowedByAnyone(t, userID) ==
    {f \in follows : f.followed_id = t.author_id}

\* INNER JOIN follows ON follows.followed_id = __tweets.author_id
\* WHERE follows.follower_id = $1 : the follows rows t is joined with.
FollowsJoin(t, userID) ==
    {f \in follows : f.followed_id = t.author_id /\ f.follower_id = userID}

\* AND __tweets.created_at <= $2
CursorFilterInclusive(t, withCursor, cursor) ==
    withCursor => t.created_at <= cursor

\* AND __tweets.created_at < $2 (only when withCursor)
CursorFilter(t, withCursor, cursor) ==
    withCursor => t.created_at < cursor

\* The rows of FROM ... WHERE ..., before ORDER BY and LIMIT.  A tweet has one
\* row per follows row and replied tweet it is joined with; the key tells the
\* rows of one tweet apart.
Selected(userID, withCursor, cursor) ==
    UNION { { [row |-> r, key |-> f] :
              <<f, r>> \in FollowsJoin(t, userID) \X LeftJoinReplied(t, userID) } :
            t \in {c \in CteTweets(userID) : CursorFilter(c, withCursor, cursor)} }

\* The orders of a set of rows: every bijection 1..n -> S.
Perms(S) ==
    {p \in [1..Cardinality(S) -> S] : \A i, j \in DOMAIN p : i # j => p[i] # p[j]}

Newest(S) == {x \in S : \A y \in S : y.row.created_at <= x.row.created_at}
Oldest(S) == {x \in S : \A y \in S : y.row.created_at >= x.row.created_at}

RECURSIVE OrderByCreatedAtAsc(_)
\* ORDER BY __tweets.created_at (ascending)
OrderByCreatedAtAsc(S) ==
    IF S = {} THEN {<<>>}
    ELSE {p \o q : p \in Perms(Oldest(S)), q \in OrderByCreatedAtAsc(S \ Oldest(S))}

RECURSIVE OrderByCreatedAtDesc(_)
\* ORDER BY __tweets.created_at DESC : rows of equal created_at in any order
OrderByCreatedAtDesc(S) ==
    IF S = {} THEN {<<>>}
    ELSE {p \o q : p \in Perms(Newest(S)), q \in OrderByCreatedAtDesc(S \ Newest(S))}

\* The page size.
PageSize == 10

\* No LIMIT clause.
NoLimit(s) == s

\* LIMIT 10
Limit(s) == IF Len(s) <= PageSize THEN s ELSE SubSeq(s, 1, PageSize)

\* db.Query(query, userID[, cursor]): the row sequences the store may return.
Query(userID, withCursor, cursor) ==
    { [i \in DOMAIN s |-> s[i].row] :
      s \in {Limit(o) : o \in OrderByCreatedAtDesc(Selected(userID, withCursor, cursor))} }


(***************************************************************************)
(* Execute: the row-mapping loop and the returns.                          *)
(***************************************************************************)
\* The columns of the replied tweet copied into entity.Reply.
ReplyOf(r) ==
    [ID |-> r.replied_id_tweet.Int64,
     FavoritesCount |-> r.replied_favorite_count.Int64,
     RepliesCount |-> r.replied_reply_count.Int64,
     AlreadyLiked |-> r.replied_already_liked.Bool]

\* The fields both branches of the loop body set alike.  AuthorHandle stands
\* for AuthorName, AuthorHandle and AuthorPhotoURL: the author's users row.
Entry(r, isReply, reply) ==
    [ID |-> r.id,
     CreatedAt |-> r.created_at,
     FavoritesCount |-> r.favorite_count,
     RepliesCount |-> r.reply_count,
     AuthorHandle |-> r.author_id,
     Reply |-> reply,
     IsReply |-> isReply,
     AlreadyLiked |-> r.already_liked]

\* The loop body with IsReply left at its zero value in the reply branch.
MapRowIsReplyUnset(r) ==
    IF r.replied_id_tweet.Valid
    THEN Entry(r, FALSE, <<ReplyOf(r)>>)
    ELSE Entry(r, FALSE, <<>>)

\* The loop body: one scanned row to one ListTweetFeedOutput.  Reply is the
\* pointer: <<>> is nil.
MapRow(r) ==
    IF r.replied_id_tweet.Valid
    THEN Entry(r, TRUE, <<ReplyOf(r)>>)
    ELSE Entry(r, FALSE, <<>>)

\* The slice `tweets` after the loop body ran on the first k rows.
MapRows(rows, k) == [i \in 1..k |-> MapRow(rows[i])]

ErrNil == "nil"
ErrInvalidCursor == "ErrInvalidCursor"
\* errors.Wrap(err, "service.listTweetFeedService.Execute")
ErrStore == "service.listTweetFeedService.Execute"

\* A failure return that hands back the entries assembled so far.
ReturnPartial(assembled, err) == [tweets |-> assembled, err |-> err]

\* return []ListTweetFeedOutput{}, err : every failure return of Execute.
ReturnError(assembled, err) == [tweets |-> <<>>, err |-> err]

\* Execute(userID, createdAtCursor), from its first line to its return.
Execute(userID, createdAtCursor) ==
    LET withCursor == createdAtCursor # ""
        parsed == ParseRFC3339(createdAtCursor)
    IN  \/ \* time.Parse fails
           /\ withCursor /\ ~parsed.ok
           /\ ret' = ReturnError(<<>>, ErrInvalidCursor)
           /\ mapped' = <<>>
           /\ queries' = 0
        \/ \* db.Query fails
           /\ withCursor => parsed.ok
           /\ ret' = ReturnError(<<>>, ErrStore)
           /\ mapped' = <<>>
           /\ queries' = 1
        \/ /\ withCursor => parsed.ok
           /\ queries' = 1
           /\ \E rows \in Query(userID, withCursor, parsed.t) :
                \/ \* rows.Scan fails on row k
                   \E k \in 1..Len(rows) :
                     /\ mapped' = MapRows(rows, k - 1)
                     /\ ret' = ReturnError(mapped', ErrStore)
                \/ \* rows.Next stops after k rows and rows.Err is not nil
                   \E k \in 0..Len(rows) :
                     /\ mapped' = MapRows(rows, k)
                     /\ ret' = ReturnError(mapped', ErrStore)
                \/ \* every row is mapped
                   /\ mapped' = MapRows(rows, Len(rows))
                   /\ ret' = [tweets |-> mapped', err |-> ErrNil]

(***************************************************************************)
(* The callers of Execute.                                                 *)
(***************************************************************************)
NotADate == "not-a-date"
DateOnly == "2021-06-01"

\* The cursors of a first call: none, a text that is no RFC3339 timestamp,
\* or a timestamp.
CursorInputs ==
    {"", NotADate, DateOnly} \cup {FormatRFC3339(t) : t \in 0..MaxCursor}

\* A caller's first call, with any viewer and cursor.  One with no cursor
\* asks for the first page, and starts a traversal.  Execute keeps nothing
\* from one call to the next, so one caller is followed: the first call,
\* then the same call again or the next page.
Call(userID, createdAtCursor) ==
    /\ call.kind = "none"
    /\ Execute(userID, createdAtCursor)
    /\ call' = [kind |-> "first", userID |-> userID,
                createdAtCursor |-> createdAtCursor, trav |-> createdAtCursor = ""]
    /\ prev' = <<>>
    /\ acc' = <<>>
    /\ UNCHANGED store

\* The same call again, after the last one succeeded.
CallAgain ==
    /\ call.kind # "none"
    /\ ret.err = ErrNil
    /\ Execute(call.userID, call.createdAtCursor)
    /\ call' = [call EXCEPT !.kind = "again", !.trav = FALSE]
    /\ prev' = ret.tweets
    /\ acc' = <<>>
    /\ UNCHANGED store

\* The next page of the traversal: the cursor is the created_at of the last
\* entry of the page just returned.
CallNextPage ==
    /\ call.trav
    /\ ret.err = ErrNil
    /\ ret.tweets # <<>>
    /\ LET cursor == FormatRFC3339(ret.tweets[Len(ret.tweets)].CreatedAt)
       IN  /\ Execute(call.userID, cursor)
           /\ call' = [kind |-> "next", userID |-> call.userID,
                       createdAtCursor |-> cursor, trav |-> TRUE]
    /\ prev' = <<>>
    /\ acc' = acc \o [i \in DOMAIN ret.tweets |-> ret.tweets[i].ID]
    /\ UNCHANGED store

(***************************************************************************)
(* The stores the service is run on.                                       *)
(***************************************************************************)
\* created_at of the tweets 1..k: the first at second 1, each next one in
\* the same second as the one before or in the next.
DetailTimes(k) ==
    {ts \in [1..k -> 1..k] :
        /\ k >= 1 => ts[1] = 1
        /\ \A i \in 1..k : i > 1 => ts[i] \in {ts[i - 1], ts[i - 1] + 1}}

\* Reply edges among the tweets 1..k: a reply is newer than the tweet it
\* replies to, and replies to one tweet.
ReplyTables(k) ==
    {R \in SUBSET [id_reply : 1..k, id_tweet : 1..k] :
        /\ \A r \in R : r.id_tweet < r.id_reply
        /\ \A r, q \in R : r.id_reply = q.id_reply => r = q}

\* Follow edges: any, one row per ordered pair.
FollowTables == SUBSET [follower_id : Users, followed_id : Users]

\* The sizes of the run of later tweets: none, or about a page.
BulkSizes == {0} \cup ((PageSize - 1)..MaxBulk)

\* The tables as the write path may have left them, and no call made yet.
\* A store with the later run of tweets has no favorites and no replies rows.
Init ==
    /\ \E k \in DetailCounts, b \in BulkSizes, bulkAuthor \in Users :
         /\ b = 0 => bulkAuthor = 1
         /\ \E author \in [1..k -> Users], ts \in DetailTimes(k) :
              tweets = [id \in 1..(k + b) |->
                          IF id <= k
                          THEN [id_user |-> author[id], created_at |-> ts[id]]
                          ELSE [id_user |-> bulkAuthor,
                                created_at |-> (IF k = 0 THEN 0 ELSE ts[k]) + (id - k)]]
         /\ favorites \in SUBSET [id_user : Users, id_tweet : 1..k]
         /\ replies \in ReplyTables(k)
         /\ b > 0 => favorites = {} /\ replies = {}
    /\ follows \in FollowTables
    /\ call = [kind |-> "none", userID |-> 0, createdAtCursor |-> "", trav |-> FALSE]
    /\ ret = [tweets |-> <<>>, err |-> ErrNil]
    /\ mapped = <<>>
    /\ queries = 0
    /\ prev = <<>>
    /\ acc = <<>>

Next ==
    \/ \E userID \in Users, createdAtCursor \in CursorInputs :
         Call(userID, createdAtCursor)
    \/ CallAgain
    \/ CallNextPage

Spec == Init /\ [][Next]_vars


(***************************************************************************)
(* What the properties are stated with: read off the tables and the        *)
(* returned page, not off the query.                                       *)
(***************************************************************************)
Returned == call.kind # "none"
Succeeded == Returned /\ ret.err = ErrNil
Page == ret.tweets

\* userID follows the author of tweet id.
FollowsAuthor(userID, id) ==
    [follower_id |-> userID, followed_id |-> tweets[id].id_user] \in follows

\* The tweets of the accounts userID follows.
Eligible(userID) == {id \in DOMAIN tweets : FollowsAuthor(userID, id)}

Likes(userID, id) == [id_user |-> userID, id_tweet |-> id] \in favorites

IsTimestamp(s) == \E t \in Seconds : FormatRFC3339(t) = s
TimestampOf(s) == CHOOSE t \in Seconds : FormatRFC3339(t) = s

\* C1. Visibility: every entry of a returned page is a tweet of the store
\* whose author the viewer follows.
C1_Visibility ==
    Returned =>
        \A i \in DOMAIN Page :
            /\ Page[i].ID \in DOMAIN tweets
            /\ FollowsAuthor(call.userID, Page[i].ID)

\* A page is returned while the store holds a tweet of an account that the
\* viewer does not follow and another account does.
C1_Witness ==
    /\ Succeeded
    /\ Page # <<>>
    /\ \E id \in DOMAIN tweets :
          /\ ~FollowsAuthor(call.userID, id)
          /\ \E u \in Users : FollowsAuthor(u, id)

\* C2. Cursor correctness: with a cursor that is an RFC3339 timestamp c,
\* every returned entry was created strictly before c; with no cursor no
\* lower bound applies: the page starts at the newest tweet the viewer may
\* see.
C2_CursorStrict ==
    Succeeded =>
        /\ IsTimestamp(call.createdAtCursor) =>
              \A i \in DOMAIN Page :
                  Page[i].CreatedAt < TimestampOf(call.createdAtCursor)
        /\ (call.createdAtCursor = "" /\ Eligible(call.userID) # {}) =>
              /\ Page # <<>>
              /\ \A id \in Eligible(call.userID) :
                    tweets[id].created_at <= Page[1].CreatedAt

\* A page comes back for a cursor that is the created_at of a tweet the
\* viewer may see.
C2_Witness ==
    /\ Succeeded
    /\ IsTimestamp(call.createdAtCursor)
    /\ Page # <<>>
    /\ \E id \in Eligible(call.userID) :
          tweets[id].created_at = TimestampOf(call.createdAtCursor)

\* C3. Ordering: in a returned page, and in the entries the loop has mapped
\* when the call returns, no entry is older than the one after it.
C3_Ordering ==
    Returned =>
        /\ \A i \in 1..(Len(Page) - 1) : Page[i].CreatedAt >= Page[i + 1].CreatedAt
        /\ \A i \in 1..(Len(mapped) - 1) : mapped[i].CreatedAt >= mapped[i + 1].CreatedAt

\* A page holds an entry followed by two older ones of one second.
C3_Witness ==
    /\ Succeeded
    /\ \E i \in 1..(Len(Page) - 2) :
          /\ Page[i].CreatedAt > Page[i + 1].CreatedAt
          /\ Page[i + 1].CreatedAt = Page[i + 2].CreatedAt

\* C4. Boundedness: a call never returns more than 10 entries.
C4_Bounded == Returned => Len(Page) <= PageSize

\* A full page is returned to a viewer who may see more than 10 tweets.
C4_Witness ==
    /\ Succeeded
    /\ call.createdAtCursor = ""
    /\ Cardinality(Eligible(call.userID)) > PageSize
    /\ Len(Page) = PageSize

\* C5. Invalid cursor: a call whose cursor is neither empty nor an RFC3339
\* timestamp fails with ErrInvalidCursor, returns no entry and issues no
\* query.
C5_InvalidCursor ==
    (Returned /\ call.createdAtCursor # "" /\ ~IsTimestamp(call.createdAtCursor)) =>
        /\ ret.err = ErrInvalidCursor
        /\ Page = <<>>
        /\ queries = 0

\* Execute("not-a-date") has returned, on a store whose tweets the viewer
\* may see.
C5_Witness ==
    /\ Returned
    /\ call.createdAtCursor = NotADate
    /\ ret.err = ErrInvalidCursor
    /\ Eligible(call.userID) # {}

\* C6. Like consistency: AlreadyLiked of an entry says whether the viewer
\* has a favorites row for the tweet, and AlreadyLiked of its nested Reply
\* whether the viewer has one for the replied tweet.
C6_LikeConsistency ==
    Returned =>
        \A i \in DOMAIN Page :
            /\ Page[i].AlreadyLiked = Likes(call.userID, Page[i].ID)
            /\ Page[i].Reply # <<>> =>
                  Page[i].Reply[1].AlreadyLiked = Likes(call.userID, Page[i].Reply[1].ID)

\* A returned reply that another account likes and the viewer does not,
\* to a tweet the viewer likes.
C6_Witness ==
    /\ Succeeded
    /\ \E i \in DOMAIN Page :
          /\ Page[i].Reply # <<>>
          /\ ~Likes(call.userID, Page[i].ID)
          /\ \E u \in Users : Likes(u, Page[i].ID)
          /\ Likes(call.userID, Page[i].Reply[1].ID)

\* C7. Reply consistency: an entry has IsReply set exactly when it carries a
\* Reply, and exactly when the tweet has a row in replies; the Reply is the
\* replied tweet.
C7_ReplyConsistency ==
    Returned =>
        \A i \in DOMAIN mapped :
            /\ mapped[i].IsReply <=> mapped[i].Reply # <<>>
            /\ mapped[i].IsReply <=> \E r \in replies : r.id_reply = mapped[i].ID
            /\ mapped[i].Reply # <<>> =>
                  [id_reply |-> mapped[i].ID, id_tweet |-> mapped[i].Reply[1].ID] \in replies

\* A page holds a reply and a tweet that is none.
C7_Witness ==
    /\ Succeeded
    /\ \E i, j \in DOMAIN Page : Page[i].IsReply /\ ~Page[j].IsReply

\* C8. Idempotence: the same call again, on the same store, returns the
\* page the call before it returned.
C8_Idempotence ==
    (call.kind = "again" /\ ret.err = ErrNil) => Page = prev

\* C9. No partial page on failure: a call that returns an error returns no
\* entry.
C9_NoPartialPage == (Returned /\ ret.err # ErrNil) => Page = <<>>

\* A call fails in the store after its loop has mapped two rows.
C9_Witness ==
    /\ Returned
    /\ ret.err = ErrStore
    /\ Len(mapped) >= 2

\* The ids of the pages of the traversal, the last one included.
Traversed == acc \o [i \in DOMAIN Page |-> Page[i].ID]

\* C10. Pagination traversal: when the traversal ends with an empty page,
\* the pages before it hold every tweet the viewer may see, once each, and
\* nothing else.
C10_Traversal ==
    (call.trav /\ ret.err = ErrNil /\ Page = <<>>) =>
        /\ \A id \in Eligible(call.userID) :
              Cardinality({i \in DOMAIN Traversed : Traversed[i] = id}) = 1
        /\ \A i \in DOMAIN Traversed : Traversed[i] \in Eligible(call.userID)

=============================================================================
